---------------------------- MODULE Spec2Model ----------------------------
(***************************************************************************)
(* Model of meta_ads_reporter.py: the hourly Meta Ads tracker.             *)
(*                                                                         *)
(* Time is counted in minutes of the reporting timezone (IST) since the    *)
(* midnight that starts day 0.  A bucket is an hour-aligned minute count.  *)
(* Money is counted in paise (1/100 rupee), so spend is an integer.        *)
(* A worksheet is the sequence of its non-empty rows (get_all_values).     *)
(***************************************************************************)
EXTENDS Integers, Sequences, FiniteSets, TLC

(***************************************************************************)
(* Program constants (class Config) and calendar constants.                *)
(***************************************************************************)
MAX_RETRIES == 3
MAX_CATCHUP_HOURS == 24
ENABLE_AUTO_CATCHUP == TRUE
NumAccounts == 2
MinutesPerHour == 60
HoursPerDay == 24
MinutesPerDay == MinutesPerHour * HoursPerDay

(***************************************************************************)
(* Bounds of the model.                                                    *)
(***************************************************************************)
\* the wall clock at the start of a behaviour: 00:30 of day 1
StartNow == 1470
\* how far (in hours) the pre-existing last hourly row may lie in the past
MaxGap == 2
\* a whole run: the longest cursor chain the API serves, and how many
\* failures (of a request, of a spreadsheet call) the environment injects
RunPages == 2
RunFaults == 1
\* a single bucket's fetches: the same two limits
FetchPages == 4
FetchFaults == 4
\* two overlapping invocations: the longest cursor chain
OverlapPages == 1
\* the planner alone: how many hours the last hourly row may lie in the
\* past, and the largest manual override
MaxPlanGap == 26
MaxOverride == 26
\* the three updates alone: how many rows the ledgers hold below the header
LedgerLen == 3
\* the metrics alone: the largest value of a counter of a record, in units
MaxCount == 1

Runners == {1, 2}

\* Optional[x]: None is the empty sequence, a value x is <<x>>
None == <<>>
Some(x) == <<x>>

(***************************************************************************)
(* Pure helpers.                                                           *)
(***************************************************************************)
Min(a, b) == IF a < b THEN a ELSE b

RECURSIVE Concat(_)
Concat(ss) == IF ss = <<>> THEN <<>> ELSE Head(ss) \o Concat(Tail(ss))

RECURSIVE SumSeq(_)
SumSeq(s) == IF s = <<>> THEN 0 ELSE Head(s) + SumSeq(Tail(s))

Map(f(_), s) == [i \in 1..Len(s) |-> f(s[i])]

\* int(x / y) of Python: the quotient truncated toward zero
TruncDiv(x, y) == IF x >= 0 THEN x \div y ELSE -((-x) \div y)

(***************************************************************************)
(* Timestamps and their text forms.                                        *)
(***************************************************************************)
\* datetime.replace(minute=0, second=0, microsecond=0)
HourAlign(t) == t - (t % MinutesPerHour)

\* strftime('%m/%d/%Y'): the text names the calendar day only
StrfDate(t) == [day |-> t \div MinutesPerDay]

\* strftime('%m/%d/%Y %H:%M:%S'): day, hour and minute (seconds are 00)
StrfTimestamp(t) ==
    [day |-> t \div MinutesPerDay,
     hh  |-> (t % MinutesPerDay) \div MinutesPerHour,
     mm  |-> t % MinutesPerHour]

\* mutant: the text is parsed as a date, the time of day is dropped
StrpTimestampDateOnly(s) == s.day * MinutesPerDay

\* strptime of a timestamp text, then replace(tzinfo=IST)
StrpTimestamp(s) == s.day * MinutesPerDay + s.hh * MinutesPerHour + s.mm

(***************************************************************************)
(* CatchupManager.get_hours_to_process.  The CATCHUP_HOURS environment     *)
(* text, stripped, is a record: empty (unset or blank), digits (what       *)
(* str.isdigit() answers), decimal (whether int() accepts it: isdigit() is *)
(* also true of digit characters such as the superscript two, which int()  *)
(* rejects with ValueError), value (what int() returns).                   *)
(***************************************************************************)
EnvUnset == [empty |-> TRUE, digits |-> FALSE, decimal |-> FALSE, value |-> 0]
EnvText == [empty |-> FALSE, digits |-> FALSE, decimal |-> FALSE, value |-> 0]
EnvNum(n) == [empty |-> FALSE, digits |-> TRUE, decimal |-> TRUE, value |-> n]
EnvSuperscript == [empty |-> FALSE, digits |-> TRUE, decimal |-> FALSE, value |-> 0]

\* int(manual_catchup) raises ValueError
IntRaises(manual_catchup) ==
    ~manual_catchup.empty /\ manual_catchup.digits /\ ~manual_catchup.decimal

\* for i in range(n, 0, -1): hours.append(current_hour - timedelta(hours=i));
\* hours.append(current_hour)
HoursBack(current_hour, n) ==
    [i \in 1..(n + 1) |-> current_hour - (n + 1 - i) * MinutesPerHour]

\* mutant: the gap is not capped
AutoHoursNoCap(enable_auto_catchup, last_timestamp, current_hour) ==
    IF ~enable_auto_catchup THEN <<current_hour>>
    ELSE IF last_timestamp = None THEN <<current_hour>>
    ELSE LET hours_diff == TruncDiv(current_hour - last_timestamp[1], MinutesPerHour)
         IN  IF hours_diff <= 1 THEN <<current_hour>>
             ELSE HoursBack(current_hour, hours_diff)

\* the auto-detect mode, for a value of Config.ENABLE_AUTO_CATCHUP
AutoHours(enable_auto_catchup, last_timestamp, current_hour) ==
    IF ~enable_auto_catchup THEN <<current_hour>>
    ELSE IF last_timestamp = None THEN <<current_hour>>
    ELSE LET hours_diff == TruncDiv(current_hour - last_timestamp[1], MinutesPerHour)
         IN  IF hours_diff <= 1 THEN <<current_hour>>
             ELSE HoursBack(current_hour, Min(hours_diff, MAX_CATCHUP_HOURS))

\* mutant: the manual override is capped like the detected gap
HoursToProcessCapped(enable_auto_catchup, last_timestamp, current_time, manual_catchup) ==
    LET current_hour == HourAlign(current_time)
    IN  IF ~manual_catchup.empty /\ manual_catchup.digits /\ manual_catchup.value > 0
        THEN HoursBack(current_hour, Min(manual_catchup.value, MAX_CATCHUP_HOURS))
        ELSE AutoHours(enable_auto_catchup, last_timestamp, current_hour)

\* the list get_hours_to_process returns when int() does not raise, for a
\* value of Config.ENABLE_AUTO_CATCHUP
HoursToProcess(enable_auto_catchup, last_timestamp, current_time, manual_catchup) ==
    LET current_hour == HourAlign(current_time)
    IN  IF ~manual_catchup.empty /\ manual_catchup.digits /\ manual_catchup.value > 0
        THEN HoursBack(current_hour, manual_catchup.value)
        ELSE AutoHours(enable_auto_catchup, last_timestamp, current_hour)

GetHoursToProcess(last_timestamp, current_time, manual_catchup) ==
    HoursToProcess(ENABLE_AUTO_CATCHUP, last_timestamp, current_time, manual_catchup)

(***************************************************************************)
(* MetricsProcessor.  A raw insight record carries ad_id, ad_name (both    *)
(* numbered), spend (paise), impressions, clicks, actions and              *)
(* action_values (sequences of [action_type, value]).                      *)
(***************************************************************************)
PURCHASE == "offsite_conversion.fb_pixel_purchase"

RECURSIVE SumActions(_, _)
SumActions(acts, t) ==
    IF acts = <<>> THEN 0
    ELSE (IF Head(acts).action_type = t THEN Head(acts).value ELSE 0)
         + SumActions(Tail(acts), t)

ExtractActions(item) ==
    [link_clicks        |-> SumActions(item.actions, "link_click"),
     landing_page_views |-> SumActions(item.actions, "landing_page_view"),
     add_to_cart        |-> SumActions(item.actions, "add_to_cart"),
     initiate_checkout  |-> SumActions(item.actions, "initiate_checkout"),
     purchases          |-> SumActions(item.actions, PURCHASE)]

\* returns at the first entry tagged as the purchase action
RECURSIVE ExtractPurchaseValue(_)
ExtractPurchaseValue(avs) ==
    IF avs = <<>> THEN 0
    ELSE IF Head(avs).action_type = PURCHASE THEN Head(avs).value
    ELSE ExtractPurchaseValue(Tail(avs))

\* mutant: the division is not guarded; -1 stands for what a division by
\* zero leaves (inf, nan)
RatioUnguarded(a, b, k) == IF b # 0 THEN (2 * a * k * 100 + b) \div (2 * b) ELSE -1

\* a / b * k rounded to two decimals, 0 when b is not positive; the value
\* is kept in hundredths
Ratio(a, b, k) == IF b > 0 THEN (2 * a * k * 100 + b) \div (2 * b) ELSE 0

\* the per-record row built in create_ad_level_report (rec)
AdRec(item) ==
    LET acts == ExtractActions(item)
    IN  [ad_id |-> item.ad_id, ad_name |-> item.ad_name,
         spend |-> item.spend, impressions |-> item.impressions,
         clicks |-> item.clicks,
         link_clicks |-> acts.link_clicks,
         landing_page_views |-> acts.landing_page_views,
         add_to_cart |-> acts.add_to_cart,
         initiate_checkout |-> acts.initiate_checkout,
         purchases |-> acts.purchases,
         purchases_value |-> ExtractPurchaseValue(item.action_values)]

KeyLess(k1, k2) == k1[1] < k2[1] \/ (k1[1] = k2[1] /\ k1[2] < k2[2])

\* the group keys of groupby(['ad_id', 'ad_name']), in ascending key order
RECURSIVE SortedKeys(_)
SortedKeys(K) ==
    IF K = {} THEN <<>>
    ELSE LET m == CHOOSE k \in K : \A o \in K \ {k} : KeyLess(k, o)
         IN  <<m>> \o SortedKeys(K \ {m})

\* groupby(...).sum(numeric_only=True): one row per (ad_id, ad_name)
GroupSum(recs) ==
    LET keys == SortedKeys({<<recs[i].ad_id, recs[i].ad_name>> : i \in 1..Len(recs)})
        Sel(k, f(_)) ==
            SumSeq([i \in 1..Len(recs) |->
                IF <<recs[i].ad_id, recs[i].ad_name>> = k THEN f(recs[i]) ELSE 0])
        F1(r) == r.spend
        F2(r) == r.impressions
        F3(r) == r.clicks
        F4(r) == r.link_clicks
        F5(r) == r.landing_page_views
        F6(r) == r.add_to_cart
        F7(r) == r.initiate_checkout
        F8(r) == r.purchases
        F9(r) == r.purchases_value
    IN  [j \in 1..Len(keys) |->
            [ad_id |-> keys[j][1], ad_name |-> keys[j][2],
             spend |-> Sel(keys[j], F1), impressions |-> Sel(keys[j], F2),
             clicks |-> Sel(keys[j], F3), link_clicks |-> Sel(keys[j], F4),
             landing_page_views |-> Sel(keys[j], F5),
             add_to_cart |-> Sel(keys[j], F6),
             initiate_checkout |-> Sel(keys[j], F7),
             purchases |-> Sel(keys[j], F8),
             purchases_value |-> Sel(keys[j], F9)]]

\* sort_values('spend', ascending=False): rows of equal spend keep their
\* group order (the frames are short, where the sort is an insertion sort)
RECURSIVE SortBySpendDesc(_)
SortBySpendDesc(rows) ==
    IF rows = <<>> THEN <<>>
    ELSE LET i == CHOOSE i \in 1..Len(rows) :
                    /\ \A j \in 1..Len(rows) : rows[j].spend <= rows[i].spend
                    /\ \A j \in 1..(i - 1) : rows[j].spend < rows[i].spend
         IN  <<rows[i]>> \o
             SortBySpendDesc([j \in 1..(Len(rows) - 1) |->
                                 IF j < i THEN rows[j] ELSE rows[j + 1]])

\* one row of df_final
AdLevelRow(g, today_str) ==
    [kind |-> "data", Date |-> today_str, AdID |-> g.ad_id, AdName |-> g.ad_name,
     Spend |-> g.spend, Revenue |-> g.purchases_value, Orders |-> g.purchases,
     Impressions |-> g.impressions, Clicks |-> g.clicks,
     LinkClicks |-> g.link_clicks, LandingPageViews |-> g.landing_page_views,
     AddToCart |-> g.add_to_cart, InitiateCheckout |-> g.initiate_checkout,
     ROAS |-> Ratio(g.purchases_value, g.spend, 1),
     CPC |-> Ratio(g.spend, g.clicks, 1),
     CTR |-> Ratio(g.clicks, g.impressions, 100),
     CPM |-> Ratio(g.spend, g.impressions, 1000),
     LC_TO_LPV |-> Ratio(g.landing_page_views, g.link_clicks, 100),
     LPV_TO_ATC |-> Ratio(g.add_to_cart, g.landing_page_views, 100),
     ATC_TO_CI |-> Ratio(g.initiate_checkout, g.add_to_cart, 100),
     CI_TO_ORDERED |-> Ratio(g.purchases, g.initiate_checkout, 100),
     CVR |-> Ratio(g.purchases, g.link_clicks, 100)]

CreateAdLevelReport(ad_data, today_str) ==
    IF ad_data = <<>> THEN <<>>
    ELSE LET agg == SortBySpendDesc(GroupSum([i \in 1..Len(ad_data) |-> AdRec(ad_data[i])]))
         IN  [i \in 1..Len(agg) |-> AdLevelRow(agg[i], today_str)]

\* the metrics dict that process_single_hour builds for the hourly and the
\* daily row
HourMetrics(items) ==
    LET n == Len(items)
        acts == [i \in 1..n |-> ExtractActions(items[i])]
        Spend == SumSeq([i \in 1..n |-> items[i].spend])
        Impressions == SumSeq([i \in 1..n |-> items[i].impressions])
        LinkClicks == SumSeq([i \in 1..n |-> acts[i].link_clicks])
        LandingPageViews == SumSeq([i \in 1..n |-> acts[i].landing_page_views])
        AddToCart == SumSeq([i \in 1..n |-> acts[i].add_to_cart])
        InitiateCheckout == SumSeq([i \in 1..n |-> acts[i].initiate_checkout])
        Purchases == SumSeq([i \in 1..n |-> acts[i].purchases])
        PurchasesValue == SumSeq([i \in 1..n |-> ExtractPurchaseValue(items[i].action_values)])
    IN  [Spend |-> Spend, PurchasesValue |-> PurchasesValue, Purchases |-> Purchases,
         Impressions |-> Impressions, LinkClicks |-> LinkClicks,
         LandingPageViews |-> LandingPageViews, AddToCart |-> AddToCart,
         InitiateCheckout |-> InitiateCheckout,
         ROAS |-> Ratio(PurchasesValue, Spend, 1),
         CPC |-> Ratio(Spend, LinkClicks, 1),
         CPM |-> Ratio(Spend, Impressions, 1000),
         CTR |-> Ratio(LinkClicks, Impressions, 100),
         LC_TO_LPV |-> Ratio(LandingPageViews, LinkClicks, 100),
         LPV_TO_ATC |-> Ratio(AddToCart, LandingPageViews, 100),
         ATC_TO_CI |-> Ratio(InitiateCheckout, AddToCart, 100),
         CI_TO_ORDERED |-> Ratio(Purchases, InitiateCheckout, 100),
         CVR |-> Ratio(Purchases, LinkClicks, 100)]

\* calculate_metrics: the totals over the records and the ratios of the
\* totals; clicks is summed but not returned
CalculateMetrics(data_items) ==
    LET n == Len(data_items)
        acts == [i \in 1..n |-> ExtractActions(data_items[i])]
        spend == SumSeq([i \in 1..n |-> data_items[i].spend])
        impressions == SumSeq([i \in 1..n |-> data_items[i].impressions])
        clicks == SumSeq([i \in 1..n |-> data_items[i].clicks])
        link_clicks == SumSeq([i \in 1..n |-> acts[i].link_clicks])
        landing_page_views == SumSeq([i \in 1..n |-> acts[i].landing_page_views])
        add_to_cart == SumSeq([i \in 1..n |-> acts[i].add_to_cart])
        initiate_checkout == SumSeq([i \in 1..n |-> acts[i].initiate_checkout])
        purchases == SumSeq([i \in 1..n |-> acts[i].purchases])
        purchases_value ==
            SumSeq([i \in 1..n |-> ExtractPurchaseValue(data_items[i].action_values)])
    IN  [Spend |-> spend, PurchasesValue |-> purchases_value, Purchases |-> purchases,
         Impressions |-> impressions, LinkClicks |-> link_clicks,
         LandingPageViews |-> landing_page_views, AddToCart |-> add_to_cart,
         InitiateCheckout |-> initiate_checkout,
         ROAS |-> Ratio(purchases_value, spend, 1),
         CPC |-> Ratio(spend, clicks, 1),
         CTR |-> Ratio(clicks, impressions, 100),
         CPM |-> Ratio(spend, impressions, 1000),
         LC_TO_LPV |-> Ratio(landing_page_views, link_clicks, 100),
         LPV_TO_ATC |-> Ratio(add_to_cart, landing_page_views, 100),
         ATC_TO_CI |-> Ratio(initiate_checkout, add_to_cart, 100),
         CI_TO_ORDERED |-> Ratio(purchases, initiate_checkout, 100),
         CVR |-> Ratio(purchases, link_clicks, 100)]

\* create_hourly_report: the one-row frame; Date and Timestamp are texts
CreateHourlyReport(metrics, target_hour) ==
    [kind |-> "data", Date |-> StrfDate(target_hour),
     Timestamp |-> StrfTimestamp(target_hour), m |-> metrics]

\* hourly_df.drop(columns=['Timestamp'])
DropTimestamp(row) == [kind |-> "data", Date |-> row.Date, m |-> row.m]

(***************************************************************************)
(* The spreadsheet.  A row is a record with kind "header", "data", "error" *)
(* or "blank"; an error row holds text in column A only.                   *)
(***************************************************************************)
HeaderRow == [kind |-> "header"]
BlankRow == [kind |-> "blank"]
ErrorRow(t) == [kind |-> "error", at |-> StrfTimestamp(t)]

\* set_with_dataframe(ws, df, row=start): the cells of the written rows are
\* overwritten, the other rows stay
WriteRows(sheet, start, rows) ==
    LET last == start + Len(rows) - 1
        n == IF last > Len(sheet) THEN last ELSE Len(sheet)
    IN  [i \in 1..n |->
            IF i >= start /\ i <= last THEN rows[i - start + 1]
            ELSE IF i <= Len(sheet) THEN sheet[i]
            ELSE BlankRow]

\* the frame as written: preceded by its column header or not
Frame(rows, include_column_header) ==
    IF include_column_header THEN <<HeaderRow>> \o rows ELSE rows

\* get_last_hourly_timestamp, given the rows read from Hourly Data
GetLastHourlyTimestamp(all_values) ==
    IF Len(all_values) <= 1 THEN None
    ELSE LET last_row == all_values[Len(all_values)]
         IN  IF last_row.kind = "data" THEN Some(StrpTimestamp(last_row.Timestamp))
             ELSE None

\* write_error: one cell in column A of the row after the last one
WriteError(sheet, t) == WriteRows(sheet, Len(sheet) + 1, <<ErrorRow(t)>>)

\* mutant: the frame is written over the last existing row
UpdateHourlyOverLast(sheet, existing, df) ==
    LET row == IF existing = <<>> THEN 1 ELSE Len(existing)
    IN  WriteRows(sheet, row, Frame(df, row = 1))

\* update_hourly, given the rows it read (existing) and the sheet it writes
UpdateHourly(sheet, existing, df) ==
    LET row == Len(existing) + 1
    IN  WriteRows(sheet, row, Frame(df, row = 1))

\* update_daily: the first row after the header whose Date is the wall
\* clock's date is overwritten, otherwise the frame is appended
UpdateDaily(sheet, existing, df, current_time) ==
    LET current_date == StrfDate(current_time)
        hits == {i \in 2..Len(existing) :
                    existing[i].kind = "data" /\ existing[i].Date = current_date}
    IN  IF hits # {}
        THEN WriteRows(sheet, CHOOSE i \in hits : \A j \in hits : i <= j, df)
        ELSE LET row == Len(existing) + 1
             IN  WriteRows(sheet, row, Frame(df, row = 1))

\* mutant: the frame is always written from the top of the sheet
UpdateAdLevelFromTop(sheet, existing, df, date_label) ==
    LET rows == [i \in 1..Len(df) |-> [df[i] EXCEPT !.Date = date_label]]
    IN  WriteRows(sheet, 1, Frame(rows, TRUE))

\* update_ad_level: df['Date'] = date_label, then the frame is written with
\* its header on an empty sheet and appended below the last row otherwise
UpdateAdLevel(sheet, existing, df, date_label) ==
    LET rows == [i \in 1..Len(df) |-> [df[i] EXCEPT !.Date = date_label]]
    IN  IF existing = <<>> THEN WriteRows(sheet, 1, Frame(rows, TRUE))
        ELSE WriteRows(sheet, Len(existing) + 1, rows)

(***************************************************************************)
(* The upstream API: what the insights endpoint of an account serves on    *)
(* page p of its cursor chain.  Ad 1 runs in both accounts; on the second  *)
(* page of account 2 it carries another display name.  An account without  *)
(* delivery today answers its first request with an empty data list.       *)
(***************************************************************************)
Act(t, v) == [action_type |-> t, value |-> v]

PageData(account, p) ==
    IF account = 1
    THEN <<[ad_id |-> IF p = 1 THEN 1 ELSE 2, ad_name |-> 1,
            spend |-> 100 * p, impressions |-> 1000, clicks |-> 10 * p,
            actions |-> <<Act("link_click", 5), Act(PURCHASE, 1)>>,
            action_values |-> <<Act(PURCHASE, 300)>>]>>
    ELSE <<[ad_id |-> 1, ad_name |-> IF p = 1 THEN 1 ELSE 2,
            spend |-> 50, impressions |-> 0, clicks |-> 0,
            actions |-> <<Act("landing_page_view", 2 * p)>>,
            action_values |-> <<>>]>>

\* the data the API answers with when page p of an account closes a chain
\* of n pages (n = 0: the empty list) or goes on to page p + 1
Served(account, p, n) == IF n = 0 THEN <<>> ELSE PageData(account, p)

\* the query parameters fetch_ad_insights passes with the first request
InsightsParams == {"access_token", "fields", "date_preset", "level"}

(***************************************************************************)
(* State.                                                                  *)
(*   now      the wall clock (minutes)                                     *)
(*   env      the CATCHUP_HOURS environment text                           *)
(*   world    the environment of this behaviour: serves[a], the lengths    *)
(*            the cursor chain of account a may have when it is fetched    *)
(*            (0: no data); faults, the failures it may still inject       *)
(*   hourly, daily, adLevel   the three worksheets                         *)
(*   st[r]    the state of invocation slot r of the script: its position   *)
(*            pc and the locals of run, process_single_hour and _paginate; *)
(*            log is what the invocation has logged per bucket: the hour   *)
(*            it processed, what the three updates returned, and how the   *)
(*            bucket ended for run(); before is the content of the sheets  *)
(*            when the current bucket started                              *)
(***************************************************************************)
VARIABLES now, env, world, hourly, daily, adLevel, st

vars == <<now, env, world, hourly, daily, adLevel, st>>
sheets == <<hourly, daily, adLevel>>

NoReturns == [ad |-> "none", hourly |-> "none", daily |-> "none"]

\* an invocation slot before run() is called
Idle ==
    [pc |-> "idle", sheets_ok |-> FALSE, hours_to_process |-> <<>>,
     idx |-> 0, success_count |-> 0, log |-> <<>>, phase |-> "hour",
     account |-> 0, all_ad_items |-> <<>>,
     url |-> 0, params |-> {}, attempt |-> 0, results |-> <<>>,
     requests |-> <<>>, sleeps |-> 0,
     existing |-> <<>>, returns |-> NoReturns,
     before |-> <<>>, ok |-> FALSE]

Off == [Idle EXCEPT !.pc = "off"]

\* the sheets as one successful bucket at hour h left them
HistoryAdLevel(h) ==
    UpdateAdLevel(<<>>, <<>>, CreateAdLevelReport(PageData(1, 1), StrfDate(h)), StrfDate(h))
HistoryHourly(h) ==
    UpdateHourly(<<>>, <<>>, <<CreateHourlyReport(HourMetrics(PageData(1, 1)), h)>>)
HistoryDaily(h) ==
    UpdateDaily(<<>>, <<>>, <<DropTimestamp(CreateHourlyReport(HourMetrics(PageData(1, 1)), h))>>, h)

InitSheets ==
    \/ hourly = <<>> /\ daily = <<>> /\ adLevel = <<>>
    \/ \E g \in 0..MaxGap :
         LET h == HourAlign(StartNow) - g * MinutesPerHour
         IN  /\ hourly = HistoryHourly(h)
             /\ daily = HistoryDaily(h)
             /\ adLevel = HistoryAdLevel(h)

(***************************************************************************)
(* Steps of one invocation r.                                              *)
(***************************************************************************)
Set(r, rec) == st' = [st EXCEPT ![r] = rec]

\* the environment injects one more failure
Fault == world.faults > 0 /\ world' = [world EXCEPT !.faults = world.faults - 1]

\* the locals of _paginate, gone when it returns
NoFetch(l) ==
    [l EXCEPT !.url = 0, !.params = {}, !.attempt = 0, !.results = <<>>,
              !.requests = <<>>, !.sleeps = 0]

\* _paginate entered for the given account: results = [], attempt = 0
StartFetch(l, account) ==
    [l EXCEPT !.pc = "request", !.account = account, !.url = 1,
              !.params = InsightsParams, !.attempt = 0, !.results = <<>>,
              !.requests = <<>>, !.sleeps = 0]

\* run(): setup, gap detection and the processing plan
\* (a ValueError of int() is caught nowhere: the script dies with a traceback)
RunStartStep(l, setup_ok, last_timestamp, current_time, manual_catchup) ==
    IF IntRaises(manual_catchup)
    THEN [l EXCEPT !.pc = "crashed", !.sheets_ok = setup_ok]
    ELSE [l EXCEPT !.pc = "loop", !.sheets_ok = setup_ok,
                   !.hours_to_process =
                       GetHoursToProcess(last_timestamp, current_time, manual_catchup),
                   !.idx = 1, !.success_count = 0]

\* setup_ok: setup() succeeded; read_ok: the read of Hourly Data succeeded
RunStart(r) ==
    /\ st[r].pc = "idle"
    /\ \E setup_ok \in BOOLEAN, read_ok \in BOOLEAN :
         LET last_timestamp ==
                 IF setup_ok /\ read_ok THEN GetLastHourlyTimestamp(hourly) ELSE None
         IN  /\ ~setup_ok => read_ok
             /\ IF setup_ok /\ read_ok THEN world' = world ELSE Fault
             /\ Set(r, RunStartStep(st[r], setup_ok, last_timestamp, now, env))
    /\ UNCHANGED <<now, env, sheets>>

\* for hour in hours_to_process: process_single_hour(hour, sheets_ok) starts
\* and calls fetch_ad_insights for the first account; ledgers is the content
\* of the three sheets at that moment
NextHourStep(l, ledgers) ==
    [StartFetch(l, 1) EXCEPT
        !.log = Append(l.log, [hour |-> l.hours_to_process[l.idx],
                               returns |-> NoReturns, result |-> "running"]),
        !.phase = "hour", !.all_ad_items = <<>>, !.returns = NoReturns,
        !.existing = <<>>, !.before = ledgers]

NextHour(r) ==
    /\ st[r].pc = "loop"
    /\ st[r].idx <= Len(st[r].hours_to_process)
    /\ Set(r, NextHourStep(st[r], <<hourly, daily, adLevel>>))
    /\ UNCHANGED <<now, env, world, sheets>>

\* the loop is over: with success_count > 0 the items are fetched once more
\* for the CSV file, otherwise run() returns False
LoopEndStep(l) ==
    IF l.success_count > 0
    THEN [StartFetch(l, 1) EXCEPT !.phase = "csv", !.all_ad_items = <<>>]
    ELSE [l EXCEPT !.pc = "done", !.ok = FALSE]

LoopEnd(r) ==
    /\ st[r].pc = "loop"
    /\ st[r].idx > Len(st[r].hours_to_process)
    /\ Set(r, LoopEndStep(st[r]))
    /\ UNCHANGED <<now, env, world, sheets>>

\* the bucket is over for run(): a return value of True is counted, False
\* is not, and the exception handler continues with the next hour
EndOfHour(l, outcome) ==
    [NoFetch(l) EXCEPT
        !.pc = "loop", !.idx = l.idx + 1,
        !.success_count = IF outcome = "true" THEN l.success_count + 1
                          ELSE l.success_count,
        !.log[Len(l.log)] = [hour |-> @.hour, returns |-> l.returns, result |-> outcome],
        !.account = 0, !.all_ad_items = <<>>, !.existing = <<>>,
        !.returns = NoReturns, !.before = <<>>]

\* run() returns success_count > 0
RunReturns(l) ==
    [NoFetch(l) EXCEPT !.pc = "done", !.ok = l.success_count > 0,
                       !.account = 0, !.all_ad_items = <<>>]

\* the exit status of the script: after run() has returned, __main__ prints
\* one of two messages and ends, whatever run() returned; only an exception
\* that nothing catches ends the interpreter with status 1
ExitStatus(l) == IF l.pc = "crashed" THEN 1 ELSE 0

\* one request as the API saw it, with the answer: its data and whether it
\* carried paging.next
Request(l, outcome, data, has_next) ==
    [url |-> l.url, params |-> l.params, outcome |-> outcome, data |-> data,
     next |-> has_next]

\* mutant: the cursor is followed with the query parameters kept
RequestOkKeepsParams(l, has_next, data) ==
    LET got == [l EXCEPT !.requests = Append(l.requests, Request(l, "ok", data, has_next)),
                         !.results = l.results \o data]
    IN  IF has_next
        THEN [got EXCEPT !.url = l.url + 1]
        ELSE [got EXCEPT !.pc = "fetched"]

\* requests.get answers 200: the page is added, its cursor followed
RequestOkStep(l, has_next, data) ==
    LET got == [l EXCEPT !.requests = Append(l.requests, Request(l, "ok", data, has_next)),
                         !.results = l.results \o data]
    IN  IF has_next
        THEN [got EXCEPT !.url = l.url + 1, !.params = {}]
        ELSE [got EXCEPT !.pc = "fetched"]

\* n: the length of the chain this answer belongs to
RequestOk(r) ==
    /\ st[r].pc = "request"
    /\ \E n \in world.serves[st[r].account] :
         /\ st[r].url <= n \/ (n = 0 /\ st[r].url = 1)
         /\ Set(r, RequestOkStep(st[r], st[r].url < n, Served(st[r].account, st[r].url, n)))
    /\ UNCHANGED <<now, env, world, sheets>>

\* mutant: the page is added to results before the failure is noticed
RequestFailsAddsPage(l, kind) ==
    LET got == [l EXCEPT !.requests = Append(l.requests, Request(l, kind, <<>>, FALSE)),
                         !.results = l.results \o PageData(l.account, l.url),
                         !.attempt = l.attempt + 1]
    IN  IF got.attempt < MAX_RETRIES
        THEN [got EXCEPT !.sleeps = l.sleeps + 1]
        ELSE [got EXCEPT !.pc = "fetched"]

\* mutant: the ceiling is tested with <= (one attempt and one sleep more)
RequestFailsOneMore(l, kind) ==
    LET got == [l EXCEPT !.requests = Append(l.requests, Request(l, kind, <<>>, FALSE)),
                         !.attempt = l.attempt + 1]
    IN  IF got.attempt <= MAX_RETRIES
        THEN [got EXCEPT !.sleeps = l.sleeps + 1]
        ELSE [got EXCEPT !.pc = "fetched"]

\* requests.get or raise_for_status raises a RequestException: a timeout or
\* a 5xx answer ("transient"), or a 401/403 answer ("auth")
RequestFailsStep(l, kind) ==
    LET got == [l EXCEPT !.requests = Append(l.requests, Request(l, kind, <<>>, FALSE)),
                         !.attempt = l.attempt + 1]
    IN  IF got.attempt < MAX_RETRIES
        THEN [got EXCEPT !.sleeps = l.sleeps + 1]
        ELSE [got EXCEPT !.pc = "fetched"]

RequestFails(r) ==
    /\ st[r].pc = "request"
    /\ \E kind \in {"transient", "auth"} : Set(r, RequestFailsStep(st[r], kind))
    /\ Fault
    /\ UNCHANGED <<now, env, sheets>>

\* mutant: the exception handler of run() leaves the loop (break for continue)
RequestRaisesBreaks(l) ==
    IF l.phase = "hour"
    THEN [EndOfHour(l, "raised") EXCEPT !.idx = Len(l.hours_to_process) + 1]
    ELSE RunReturns(l)

\* the answer is no JSON object (any other exception): it leaves _paginate
\* and process_single_hour; run() logs it and continues, the CSV step
\* swallows it
RequestRaisesStep(l) ==
    IF l.phase = "hour" THEN EndOfHour(l, "raised") ELSE RunReturns(l)

RequestRaises(r) ==
    /\ st[r].pc = "request"
    /\ Set(r, RequestRaisesStep(st[r]))
    /\ Fault
    /\ UNCHANGED <<now, env, sheets>>

\* _paginate returns results; the caller extends its list and goes on to
\* the next account or to the reports (the items fetched for the CSV file
\* go to that file only and are not kept)
FetchReturnStep(l) ==
    LET items == l.all_ad_items \o l.results
        got == [NoFetch(l) EXCEPT !.all_ad_items = IF l.phase = "csv" THEN <<>> ELSE items]
    IN  IF l.account < NumAccounts THEN StartFetch(got, l.account + 1)
        ELSE IF l.phase = "csv" THEN RunReturns(got)
        ELSE IF items = <<>> THEN EndOfHour(got, "false")
        ELSE IF l.sheets_ok THEN [got EXCEPT !.pc = "ad_read"]
        ELSE EndOfHour(got, "true")

FetchReturn(r) ==
    /\ st[r].pc = "fetched"
    /\ Set(r, FetchReturnStep(st[r]))
    /\ UNCHANGED <<now, env, world, sheets>>

\* the arguments process_single_hour computes for the three updates
TargetHour(l) == l.hours_to_process[l.idx]
TodayStr(l) == StrfDate(TargetHour(l))
AdDf(l) == CreateAdLevelReport(l.all_ad_items, TodayStr(l))
HourlyDf(l) == <<CreateHourlyReport(HourMetrics(l.all_ad_items), TargetHour(l))>>
DailyDf(l) == <<DropTimestamp(HourlyDf(l)[1])>>

\* ws.get_all_values() of an update returns
SheetRead(r, at, sheet, to) ==
    /\ st[r].pc = at
    /\ Set(r, [st[r] EXCEPT !.pc = to, !.existing = sheet])
    /\ UNCHANGED <<now, env, world, sheets>>

\* an update raises (at its read or at its write): write_error adds its row
\* to Hourly Data, unless that fails too, and the update returns False
FailedHourly(err_ok) == IF err_ok THEN WriteError(hourly, now) ELSE hourly

UpdateAdLevelRead(r) == SheetRead(r, "ad_read", adLevel, "ad_write")

UpdateAdLevelWrite(r) ==
    LET l == st[r] IN
    /\ l.pc = "ad_write"
    /\ adLevel' = UpdateAdLevel(adLevel, l.existing, AdDf(l), TodayStr(l))
    /\ Set(r, [l EXCEPT !.pc = "hourly_read", !.returns.ad = "true"])
    /\ UNCHANGED <<now, env, world, hourly, daily>>

UpdateAdLevelFails(r) ==
    LET l == st[r] IN
    /\ l.pc \in {"ad_read", "ad_write"}
    /\ \E err_ok \in BOOLEAN : hourly' = FailedHourly(err_ok)
    /\ Fault
    /\ Set(r, [l EXCEPT !.pc = "hourly_read", !.returns.ad = "false"])
    /\ UNCHANGED <<now, env, daily, adLevel>>

UpdateHourlyRead(r) == SheetRead(r, "hourly_read", hourly, "hourly_write")

UpdateHourlyWrite(r) ==
    LET l == st[r] IN
    /\ l.pc = "hourly_write"
    /\ hourly' = UpdateHourly(hourly, l.existing, HourlyDf(l))
    /\ Set(r, [l EXCEPT !.pc = "daily_read", !.returns.hourly = "true"])
    /\ UNCHANGED <<now, env, world, daily, adLevel>>

UpdateHourlyFails(r) ==
    LET l == st[r] IN
    /\ l.pc \in {"hourly_read", "hourly_write"}
    /\ \E err_ok \in BOOLEAN : hourly' = FailedHourly(err_ok)
    /\ Fault
    /\ Set(r, [l EXCEPT !.pc = "daily_read", !.returns.hourly = "false"])
    /\ UNCHANGED <<now, env, daily, adLevel>>

UpdateDailyRead(r) == SheetRead(r, "daily_read", daily, "daily_write")

\* the last update is over: process_single_hour returns True
UpdateDailyWrite(r) ==
    LET l == st[r] IN
    /\ l.pc = "daily_write"
    /\ daily' = UpdateDaily(daily, l.existing, DailyDf(l), now)
    /\ Set(r, EndOfHour([l EXCEPT !.returns.daily = "true"], "true"))
    /\ UNCHANGED <<now, env, world, hourly, adLevel>>

UpdateDailyFails(r) ==
    LET l == st[r] IN
    /\ l.pc \in {"daily_read", "daily_write"}
    /\ \E err_ok \in BOOLEAN : hourly' = FailedHourly(err_ok)
    /\ Fault
    /\ Set(r, EndOfHour([l EXCEPT !.returns.daily = "false"], "true"))
    /\ UNCHANGED <<now, env, daily, adLevel>>

Fetching(r) ==
    RequestOk(r) \/ RequestFails(r) \/ RequestRaises(r) \/ FetchReturn(r)

Step(r) ==
    \/ RunStart(r) \/ NextHour(r) \/ LoopEnd(r)
    \/ RequestOk(r) \/ RequestFails(r) \/ RequestRaises(r) \/ FetchReturn(r)
    \/ UpdateAdLevelRead(r) \/ UpdateAdLevelWrite(r) \/ UpdateAdLevelFails(r)
    \/ UpdateHourlyRead(r) \/ UpdateHourlyWrite(r) \/ UpdateHourlyFails(r)
    \/ UpdateDailyRead(r) \/ UpdateDailyWrite(r) \/ UpdateDailyFails(r)

(***************************************************************************)
(* Spec: one invocation of the script, from run() to its return, against   *)
(* an empty spreadsheet or one that holds an earlier bucket.               *)
(***************************************************************************)
Init ==
    /\ now = StartNow
    /\ env \in {EnvUnset, EnvNum(1)}
    /\ \E n1 \in 0..RunPages, n2 \in 0..RunPages :
         world = [serves |-> <<{n1}, {n2}>>, faults |-> RunFaults]
    /\ InitSheets
    /\ st = [r \in Runners |-> IF r = 1 THEN Idle ELSE Off]

Next == \E r \in Runners : Step(r)

Spec == Init /\ [][Next]_vars

(***************************************************************************)
(* SpecFetch: the fetches of one bucket, request by request.  It starts    *)
(* where process_single_hour calls fetch_ad_insights for the first account *)
(* of the current hour, on a first run.                                    *)
(***************************************************************************)
InitFetch ==
    /\ now = StartNow
    /\ env = EnvUnset
    /\ world = [serves |-> <<0..FetchPages, 0..FetchPages>>, faults |-> FetchFaults]
    /\ hourly = <<>> /\ daily = <<>> /\ adLevel = <<>>
    /\ \E setup_ok \in BOOLEAN :
         st = [r \in Runners |->
                 IF r = 1
                 THEN NextHourStep(RunStartStep(Idle, setup_ok, None, StartNow, EnvUnset),
                                   <<<<>>, <<>>, <<>>>>)
                 ELSE Off]

NextFetch == \E r \in Runners : Fetching(r)

SpecFetch == InitFetch /\ [][NextFetch]_vars

(***************************************************************************)
(* SpecOverlap: two invocations of the script overlap on one spreadsheet   *)
(* (a scheduled run starts before the previous one has finished).  No      *)
(* request and no spreadsheet call fails.                                  *)
(***************************************************************************)
InitOverlap ==
    /\ now = StartNow
    /\ env = EnvUnset
    /\ \E n1 \in 0..OverlapPages, n2 \in 0..OverlapPages :
         world = [serves |-> <<{n1}, {n2}>>, faults |-> 0]
    /\ hourly = <<>> /\ daily = <<>> /\ adLevel = <<>>
    /\ st = [r \in Runners |-> Idle]

StepOverlap(r) ==
    \/ RunStart(r) \/ NextHour(r) \/ LoopEnd(r)
    \/ RequestOk(r) \/ FetchReturn(r)
    \/ UpdateAdLevelRead(r) \/ UpdateAdLevelWrite(r)
    \/ UpdateHourlyRead(r) \/ UpdateHourlyWrite(r)
    \/ UpdateDailyRead(r) \/ UpdateDailyWrite(r)

NextOverlap == \E r \in Runners : StepOverlap(r)

SpecOverlap == InitOverlap /\ [][NextOverlap]_vars

(***************************************************************************)
(* SpecPlan: the processing plan alone.  run() reads the last timestamp of *)
(* Hourly Data and calls get_hours_to_process, for every override text and *)
(* for a last row that lies up to MaxPlanGap hours in the past, an hour in *)
(* the future, or off the hour; the sheet may also be empty, hold its      *)
(* header only, or end in an error row.                                    *)
(***************************************************************************)
PlanLasts ==
    {HourAlign(StartNow) - q * (MinutesPerHour \div 2) : q \in (-2)..(2 * MaxPlanGap)}

InitPlan ==
    /\ now \in {HourAlign(StartNow), StartNow}
    /\ env \in {EnvUnset, EnvText, EnvSuperscript} \cup {EnvNum(n) : n \in 0..MaxOverride}
    /\ world = [serves |-> <<{0}, {0}>>, faults |-> 0]
    /\ \/ hourly \in {<<>>, <<HeaderRow>>}
       \/ \E t \in PlanLasts : hourly = HistoryHourly(t)
       \/ hourly = WriteError(HistoryHourly(HourAlign(StartNow) - MaxPlanGap * MinutesPerHour),
                              StartNow)
    /\ daily = <<>> /\ adLevel = <<>>
    /\ st = [r \in Runners |-> IF r = 1 THEN Idle ELSE Off]

NextPlan == \E r \in Runners : RunStart(r)

SpecPlan == InitPlan /\ [][NextPlan]_vars

(***************************************************************************)
(* SpecLedger: the three updates of one bucket alone, against ledgers of   *)
(* every shape: below the header, up to LedgerLen rows that are rows of    *)
(* the bucket's date ("same"), rows of the day before ("other"), emptied   *)
(* rows ("blank") and, in Hourly Data, error rows ("error").  The bucket   *)
(* is the current hour or, on a catch-up, the hour before (yesterday's     *)
(* last).  No spreadsheet call fails.                                      *)
(***************************************************************************)
RowKinds == {"same", "other", "blank", "error"}

\* get_all_values ends with the last row that is not empty
LedgerShapes ==
    {sh \in UNION {[1..k -> RowKinds] : k \in 0..LedgerLen} :
        sh # <<>> => sh[Len(sh)] # "blank"}

DateOf(kind, target) == IF kind = "same" THEN target ELSE target - MinutesPerDay

HourlyLedger(sh, target) ==
    <<HeaderRow>> \o
    [i \in 1..Len(sh) |->
        IF sh[i] = "blank" THEN BlankRow
        ELSE IF sh[i] = "error" THEN ErrorRow(target)
        ELSE CreateHourlyReport(HourMetrics(PageData(1, 1)), DateOf(sh[i], target))]

DailyLedger(sh, target) ==
    <<HeaderRow>> \o
    [i \in 1..Len(sh) |->
        IF sh[i] \in {"blank", "error"} THEN BlankRow
        ELSE DropTimestamp(CreateHourlyReport(HourMetrics(PageData(1, 1)),
                                              DateOf(sh[i], target)))]

AdLevelLedger(sh, target) ==
    <<HeaderRow>> \o
    [i \in 1..Len(sh) |->
        IF sh[i] \in {"blank", "error"} THEN BlankRow
        ELSE CreateAdLevelReport(PageData(1, 1), StrfDate(DateOf(sh[i], target)))[1]]

\* process_single_hour has fetched items for the first bucket of the plan
LedgerStart(manual_catchup, items, ledgers) ==
    [NoFetch(NextHourStep(RunStartStep(Idle, TRUE, None, StartNow, manual_catchup), ledgers))
        EXCEPT !.pc = "ad_read", !.account = NumAccounts, !.all_ad_items = items]

InitLedger ==
    /\ now = StartNow
    /\ env \in {EnvUnset, EnvNum(1)}
    /\ world = [serves |-> <<{1}, {1}>>, faults |-> 0]
    /\ LET target == GetHoursToProcess(None, StartNow, env)[1]
       IN  \/ hourly = <<>> /\ daily = <<>> /\ adLevel = <<>>
           \/ \E sh \in LedgerShapes :
                /\ hourly = HourlyLedger(sh, target)
                /\ daily = DailyLedger(sh, target)
                /\ adLevel = AdLevelLedger(sh, target)
    /\ \E items \in {PageData(1, 1), PageData(1, 1) \o PageData(2, 1),
                      PageData(1, 2) \o PageData(2, 2)} :
         st = [r \in Runners |->
                 IF r = 1 THEN LedgerStart(env, items, <<hourly, daily, adLevel>>)
                 ELSE Off]

StepLedger(r) ==
    \/ UpdateAdLevelRead(r) \/ UpdateAdLevelWrite(r)
    \/ UpdateHourlyRead(r) \/ UpdateHourlyWrite(r)
    \/ UpdateDailyRead(r) \/ UpdateDailyWrite(r)

NextLedger == \E r \in Runners : StepLedger(r)

SpecLedger == InitLedger /\ [][NextLedger]_vars

(***************************************************************************)
(* SpecMetrics: the aggregation alone.  One bucket is reconciled on an     *)
(* empty spreadsheet from a record whose counters each range over          *)
(* 0..MaxCount units (a purchase is always reported, so no numerator is    *)
(* bound to be zero), alone or together with a record of account 2 or     *)
(* with a record that carries two purchase entries.                        *)
(***************************************************************************)
CountedItem(c) ==
    [ad_id |-> 1, ad_name |-> 1,
     spend |-> 100 * c[1], impressions |-> 1000 * c[2], clicks |-> 10 * c[3],
     actions |-> <<Act("link_click", 5 * c[4]), Act("landing_page_view", 4 * c[5]),
                   Act("add_to_cart", 3 * c[6]), Act("initiate_checkout", 2 * c[7]),
                   Act(PURCHASE, 1)>>,
     action_values |-> <<Act(PURCHASE, 300)>>]

\* a record that carries its purchase twice (two attribution entries) among
\* entries of other types
RepeatItem ==
    [ad_id |-> 2, ad_name |-> 1, spend |-> 100, impressions |-> 1000, clicks |-> 10,
     actions |-> <<Act(PURCHASE, 1), Act("link_click", 5), Act(PURCHASE, 1)>>,
     action_values |-> <<Act("add_to_cart", 50), Act(PURCHASE, 300), Act(PURCHASE, 200)>>]

InitMetrics ==
    /\ now = StartNow
    /\ env = EnvUnset
    /\ world = [serves |-> <<{1}, {1}>>, faults |-> 0]
    /\ hourly = <<>> /\ daily = <<>> /\ adLevel = <<>>
    /\ \E c \in [1..7 -> 0..MaxCount], more \in {<<>>, PageData(2, 1), <<RepeatItem>>} :
         st = [r \in Runners |->
                 IF r = 1
                 THEN LedgerStart(EnvUnset, <<CountedItem(c)>> \o more, <<<<>>, <<>>, <<>>>>)
                 ELSE Off]

NextMetrics == \E r \in Runners : StepLedger(r)

SpecMetrics == InitMetrics /\ [][NextMetrics]_vars

(***************************************************************************)
(* Properties.                                                             *)
(***************************************************************************)
Active == {r \in Runners : st[r].pc \notin {"idle", "off"}}
DataRows(sheet) == {i \in 1..Len(sheet) : sheet[i].kind = "data"}
FailedWrite(returns) == "false" \in {returns.ad, returns.hourly, returns.daily}
GaveUp(l) == l.pc = "fetched" /\ l.attempt = MAX_RETRIES
OkRequests(l) == SelectSeq(l.requests, LAMBDA q : q.outcome = "ok")
AllOk(l) == \A i \in 1..Len(l.requests) : l.requests[i].outcome = "ok"

\* C1: update_ad_level is idempotent: applied twice with the same rows and
\* the same date label it leaves the Ad Level sheet as one application does.
\* Stated where process_single_hour is about to call it.
C1_AdLevelIdempotent ==
    \A r \in Runners :
        st[r].pc = "ad_read" =>
            LET df == AdDf(st[r])
                d == TodayStr(st[r])
                once == UpdateAdLevel(adLevel, adLevel, df, d)
            IN  UpdateAdLevel(once, once, df, d) = once

\* C2: the Ad Level sheet never holds two rows with the same (Date, Ad ID).
C2_AdLevelUnique ==
    \A i, j \in DataRows(adLevel) :
        (adLevel[i].Date = adLevel[j].Date /\ adLevel[i].AdID = adLevel[j].AdID) => i = j

\* C3: once a ledger write of the current bucket has failed, the three
\* sheets are as they were when process_single_hour started the bucket.
C3_AllOrNothing ==
    \A r \in Runners :
        (st[r].pc \notin {"idle", "off", "done"} /\ FailedWrite(st[r].returns))
            => <<hourly, daily, adLevel>> = st[r].before

\* C4: a request the API rejects with 401/403 is fatal: no request follows
\* it (it is not retried, no cursor and no other account is asked for) and
\* the fetch does not return to process_single_hour for the bucket to go on.
C4_AuthFatal ==
    \A r \in Runners :
        \A i \in 1..Len(st[r].requests) :
            st[r].requests[i].outcome = "auth" =>
                i = Len(st[r].requests) /\ st[r].pc # "fetched"

\* C5: a bucket one of whose ledger writes failed is not reported as
\* succeeded to run(), so it is not counted in success_count.
C5_FailedWriteNotCounted ==
    \A r \in Runners :
        \A i \in 1..Len(st[r].log) :
            FailedWrite(st[r].log[i].returns) => st[r].log[i].result # "true"

\* C6: run() attempts the buckets of the plan one by one in plan order
\* (oldest first), each once; when the loop is over every bucket has been
\* attempted, whatever failed before it; no more buckets succeed than were
\* attempted.
C6_EveryBucketOnce ==
    \A r \in Active :
        LET l == st[r]
            hours == l.hours_to_process
        IN  /\ Len(l.log) <= Len(hours)
            /\ \A i \in 1..Len(l.log) : l.log[i].hour = hours[i]
            /\ \A i, j \in 1..Len(hours) : i < j => hours[i] < hours[j]
            /\ Len(l.log) = IF l.pc = "loop" THEN l.idx - 1 ELSE
                            IF l.pc = "done" \/ l.phase = "csv" THEN Len(hours) ELSE l.idx
            /\ l.success_count = Cardinality({i \in 1..Len(l.log) : l.log[i].result = "true"})
            /\ l.success_count <= Len(l.log)

\* witness of C6: a run is over whose first bucket failed (an exception or
\* no data) and whose later bucket was attempted and succeeded
C6_Witness ==
    \E r \in Runners :
        /\ st[r].pc = "done"
        /\ Len(st[r].log) >= 2
        /\ st[r].log[1].result \in {"raised", "false"}
        /\ st[r].log[Len(st[r].log)].result = "true"

\* C7: two invocations never both stand between the read and the write of
\* their update of the same sheet.
C7_SingleFlight ==
    \A r1, r2 \in Runners :
        (r1 # r2 /\ st[r1].pc \in {"ad_write", "hourly_write", "daily_write"})
            => st[r2].pc # st[r1].pc

\* C8: when the retry ceiling is exhausted, _paginate returns (it does not
\* raise) exactly the data of the requests that were answered, in the order
\* of the pages, each page once.
C8_GiveUpReturnsPages ==
    \A r \in Runners :
        LET l == st[r]
            oks == OkRequests(l)
        IN  /\ (l.pc = "request" => l.attempt < MAX_RETRIES)
            /\ (l.attempt = MAX_RETRIES => l.pc = "fetched")
            /\ GaveUp(l) =>
                  /\ l.results = Concat([i \in 1..Len(oks) |-> oks[i].data])
                  /\ \A i \in 1..Len(oks) :
                        oks[i].url = i /\ oks[i].data = PageData(l.account, i)

\* witness of C8: a fetch gave up after a page that had failed once was
\* received on its retry
C8_Witness ==
    \E r \in Runners :
        /\ GaveUp(st[r])
        /\ st[r].results # <<>>
        /\ \E i, j \in 1..Len(st[r].requests) :
             /\ i < j
             /\ st[r].requests[i].url = st[r].requests[j].url
             /\ st[r].requests[i].outcome = "transient"
             /\ st[r].requests[j].outcome = "ok"

\* the results a fetch of the account returns when no request fails
CompleteResults(account) ==
    {Concat([i \in 1..n |-> PageData(account, i)]) : n \in world.serves[account]}

\* C9: the result of a fetch that gave up tells the caller that it is
\* incomplete: it is not a result that a complete fetch returns.
C9_IncompleteSignalled ==
    \A r \in Runners :
        GaveUp(st[r]) => st[r].results \notin CompleteResults(st[r].account)

\* C10: a fetch none of whose requests failed, whose answers carried k
\* cursors, has issued k + 1 requests and returns the data of all its pages
\* in page order; the first request carries the query parameters, every
\* later one asks for the cursor of the page before with no parameters.
C10_FollowsCursors ==
    \A r \in Runners :
        LET l == st[r]
            q == l.requests
            k == Cardinality({i \in 1..Len(q) : q[i].next})
        IN  (l.pc = "fetched" /\ AllOk(l)) =>
                /\ Len(q) = k + 1
                /\ l.results = Concat([i \in 1..Len(q) |-> q[i].data])
                /\ \A i \in 1..Len(q) :
                      /\ q[i].url = i
                      /\ q[i].next = (i < Len(q))
                      /\ q[i].params = IF i = 1 THEN InsightsParams ELSE {}

\* witness of C10: three cursors were chained and four requests issued
C10_Witness ==
    \E r \in Runners :
        /\ st[r].pc = "fetched" /\ AllOk(st[r])
        /\ Cardinality({i \in 1..Len(st[r].requests) : st[r].requests[i].next}) = 3
        /\ Len(st[r].requests) = 4
        /\ Len(st[r].results) = 4

\* the plan is the n buckets preceding cur followed by cur, oldest first
Preceding(plan, cur, n) ==
    /\ Len(plan) = n + 1
    /\ plan[1] = cur - n * MinutesPerHour
    /\ \A i \in 1..n : plan[i + 1] = plan[i] + MinutesPerHour
    /\ plan[Len(plan)] = cur

\* C11: without a manual override, a last recorded bucket k whole hours
\* before the current bucket gives [current] when k <= 1 and otherwise the
\* min(k, 24) preceding buckets followed by the current one, oldest first;
\* no last recorded bucket gives [current].
C11_AutoPlan ==
    \A r \in Runners :
        (st[r].pc = "loop" /\ env = EnvUnset) =>
            LET plan == st[r].hours_to_process
                cur == HourAlign(now)
                last == GetLastHourlyTimestamp(hourly)
            IN  IF last = None THEN plan = <<cur>>
                ELSE (last[1] % MinutesPerHour = 0 /\ last[1] <= cur) =>
                        LET k == (cur - last[1]) \div MinutesPerHour
                        IN  IF k <= 1 THEN plan = <<cur>>
                            ELSE Preceding(plan, cur, Min(k, MAX_CATCHUP_HOURS))

C11_Witness ==
    /\ st[1].pc = "loop" /\ env = EnvUnset
    /\ GetLastHourlyTimestamp(hourly) # None
    /\ HourAlign(now) - GetLastHourlyTimestamp(hourly)[1] > MAX_CATCHUP_HOURS * MinutesPerHour
    /\ Len(st[1].hours_to_process) = MAX_CATCHUP_HOURS + 1

\* C12: a positive manual override N gives the N buckets preceding the
\* current hour followed by the current hour, oldest first, whatever the last
\* recorded bucket and the auto catch-up switch are, and uncapped; an
\* override of zero or of text that is no number gives what the automatic
\* rules give.
C12_ManualOverride ==
    \A r \in Runners :
        st[r].pc = "loop" =>
            \A enable \in BOOLEAN :
                LET cur == HourAlign(now)
                    last == GetLastHourlyTimestamp(hourly)
                    plan == HoursToProcess(enable, last, now, env)
                IN  /\ enable = ENABLE_AUTO_CATCHUP => st[r].hours_to_process = plan
                    /\ (env.decimal /\ env.value > 0) => Preceding(plan, cur, env.value)
                    /\ (env = EnvText \/ env = EnvNum(0)) => plan = AutoHours(enable, last, cur)

C12_Witness ==
    /\ st[1].pc = "loop"
    /\ env.decimal /\ env.value > MAX_CATCHUP_HOURS
    /\ GetLastHourlyTimestamp(hourly) # None
    /\ Len(st[1].hours_to_process) = env.value + 1

\* C13: whatever the last recorded timestamp and the override are, run()
\* gets a plan from get_hours_to_process, and the plan is non-empty, made of
\* hour-aligned buckets one hour apart in increasing order, and ends with
\* the current hour-aligned bucket.
C13_PlanWellFormed ==
    \A r \in Runners :
        st[r].pc \notin {"idle", "off"} =>
            /\ st[r].pc = "loop"
            /\ LET plan == st[r].hours_to_process
               IN  /\ plan # <<>>
                   /\ \A i \in 1..Len(plan) : plan[i] % MinutesPerHour = 0
                   /\ \A i \in 1..(Len(plan) - 1) : plan[i + 1] = plan[i] + MinutesPerHour
                   /\ plan[Len(plan)] = HourAlign(now)

\* C14: update_daily is an upsert keyed by the Date of the row it is given:
\* the Daily ledger never holds two rows of one Date.
C14_DailyUpsert ==
    \A i, j \in DataRows(daily) : daily[i].Date = daily[j].Date => i = j

\* C15: when the script has ended, its exit status is zero exactly when the
\* run reconciled at least one bucket (run() returned True).
C15_ExitStatus ==
    \A r \in Runners :
        st[r].pc \in {"done", "crashed"} =>
            (ExitStatus(st[r]) = 0 <=> (st[r].pc = "done" /\ st[r].ok))

\* C16: after update_ad_level, every row the Ad Level ledger held whose Date
\* is not the date being processed is where it was, with the content it had.
C16_HistoryFreeze ==
    \A r \in Runners :
        (st[r].pc \in {"hourly_read", "hourly_write", "daily_read", "daily_write"}
            /\ st[r].returns.ad = "true") =>
            LET old == st[r].before[3]
            IN  \A i \in DataRows(old) :
                    old[i].Date # TodayStr(st[r]) =>
                        i <= Len(adLevel) /\ adLevel[i] = old[i]

C16_Witness ==
    /\ st[1].pc = "hourly_read" /\ st[1].returns.ad = "true"
    /\ \E i \in DataRows(st[1].before[3]) : st[1].before[3][i].Date # TodayStr(st[1])
    /\ \E i \in DataRows(st[1].before[3]) : st[1].before[3][i].Date = TodayStr(st[1])
    /\ Len(adLevel) > Len(st[1].before[3])

\* C17: a successful update_hourly leaves Hourly Data as it was, followed by
\* the new bucket row, which the header precedes only on an empty sheet.
C17_HourlyAppendOnly ==
    \A r \in Runners :
        (st[r].pc \in {"daily_read", "daily_write"} /\ st[r].returns.hourly = "true") =>
            LET old == st[r].before[1]
            IN  hourly = old \o (IF old = <<>> THEN <<HeaderRow>> ELSE <<>>) \o HourlyDf(st[r])

C17_Witness ==
    /\ st[1].pc = "daily_read" /\ st[1].returns.hourly = "true"
    /\ Len(st[1].before[1]) > LedgerLen
    /\ st[1].before[1][Len(st[1].before[1])].kind = "error"
    /\ hourly[Len(hourly)] = HourlyDf(st[1])[1]

\* the ratios of a summary (hourly row, calculate_metrics) whose denominator
\* is 0 are 0; clicks is the denominator of CPC in calculate_metrics only
SummarySafe(m, cpc_denominator) ==
    /\ m.Spend = 0 => m.ROAS = 0
    /\ cpc_denominator = 0 => m.CPC = 0
    /\ m.Impressions = 0 => (m.CPM = 0 /\ m.CTR = 0)
    /\ m.LinkClicks = 0 => (m.LC_TO_LPV = 0 /\ m.CVR = 0)
    /\ m.LandingPageViews = 0 => m.LPV_TO_ATC = 0
    /\ m.AddToCart = 0 => m.ATC_TO_CI = 0
    /\ m.InitiateCheckout = 0 => m.CI_TO_ORDERED = 0

\* C18: every derived ratio is 0 whenever its denominator counter is 0: in
\* the rows written to Hourly Data and Daily Summary, in what
\* calculate_metrics returns for the fetched records, and in every row
\* written to the Ad Level sheet; no ratio is undefined (negative here).
C18_SafeDivision ==
    /\ \A i \in DataRows(hourly) : SummarySafe(hourly[i].m, hourly[i].m.LinkClicks)
    /\ \A i \in DataRows(daily) : SummarySafe(daily[i].m, daily[i].m.LinkClicks)
    /\ \A i \in DataRows(adLevel) :
           /\ SummarySafe(adLevel[i] @@ [PurchasesValue |-> adLevel[i].Revenue],
                          adLevel[i].Clicks)
           /\ adLevel[i].ROAS >= 0 /\ adLevel[i].CPC >= 0 /\ adLevel[i].CVR >= 0
    /\ \A r \in Runners :
           st[r].all_ad_items # <<>> =>
               LET items == st[r].all_ad_items
               IN  SummarySafe(CalculateMetrics(items),
                               SumSeq([i \in 1..Len(items) |-> items[i].clicks]))

C18_Witness ==
    /\ \E i \in DataRows(hourly) :
           LET m == hourly[i].m
           IN  /\ m.Spend = 0 /\ m.Impressions = 0 /\ m.LinkClicks = 0
               /\ m.AddToCart = 0 /\ m.InitiateCheckout > 0 /\ m.PurchasesValue > 0
    /\ \E i \in DataRows(adLevel) :
           /\ adLevel[i].Clicks = 0 /\ adLevel[i].Spend = 0 /\ adLevel[i].Revenue > 0
           /\ adLevel[i].LinkClicks = 0 /\ adLevel[i].Orders > 0

\* C19: create_ad_level_report emits one row per distinct ad_id of its input
\* (records of several accounts, or with differing names, of one ad_id are
\* merged), and the spend and the orders of the rows add up to those of the
\* input records.
C19_OneRowPerAd ==
    \A r \in Runners :
        st[r].pc = "ad_read" =>
            LET items == st[r].all_ad_items
                df == AdDf(st[r])
            IN  /\ {df[i].AdID : i \in 1..Len(df)} = {items[i].ad_id : i \in 1..Len(items)}
                /\ \A i, j \in 1..Len(df) : df[i].AdID = df[j].AdID => i = j
                /\ SumSeq([i \in 1..Len(df) |-> df[i].Spend])
                       = SumSeq([i \in 1..Len(items) |-> items[i].spend])
                /\ SumSeq([i \in 1..Len(df) |-> df[i].Orders])
                       = SumSeq([i \in 1..Len(items) |-> ExtractActions(items[i]).purchases])

\* C20: a request that fails transiently is retried until it succeeds or
\* has been attempted MAX_RETRIES times, however many failures the earlier
\* pages of the fetch had: when _paginate has given up, its last MAX_RETRIES
\* requests are failed attempts of one and the same request.
C20_RetryPerRequest ==
    \A r \in Runners :
        GaveUp(st[r]) =>
            LET q == st[r].requests
            IN  /\ Len(q) >= MAX_RETRIES
                /\ \A i \in (Len(q) - MAX_RETRIES + 1)..Len(q) :
                       q[i].outcome # "ok" /\ q[i].url = q[Len(q)].url

\* C21: with automatic catch-up (no manual override) Hourly Data never holds
\* two rows with the same bucket timestamp.
C21_NoDuplicateBucket ==
    env = EnvUnset =>
        \A i, j \in DataRows(hourly) : hourly[i].Timestamp = hourly[j].Timestamp => i = j

\* C22: purchases_value of a record is the sum of the values of all its
\* action_values entries tagged as the purchase action, also when there is
\* more than one such entry.
C22_PurchaseValueSum ==
    \A r \in Runners :
        st[r].returns.ad = "true" =>
            LET items == st[r].all_ad_items
                written == {i \in DataRows(adLevel) : i > Len(st[r].before[3])}
            IN  /\ \A i \in 1..Len(items) :
                       ExtractPurchaseValue(items[i].action_values)
                           = SumActions(items[i].action_values, PURCHASE)
                /\ \A i \in written :
                       adLevel[i].Revenue =
                           SumSeq([k \in 1..Len(items) |->
                                      IF items[k].ad_id = adLevel[i].AdID
                                         /\ items[k].ad_name = adLevel[i].AdName
                                      THEN SumActions(items[k].action_values, PURCHASE)
                                      ELSE 0])

\* C23: the summary row written to Hourly Data (and Daily Summary) has
\* CPC = spend / clicks and CTR = clicks / impressions * 100 over the summed
\* counters, clicks being the sum of the records' clicks: it agrees with
\* calculate_metrics on the records of the bucket.
C23_SummaryFormulas ==
    \A r \in Runners :
        (st[r].pc \in {"daily_read", "daily_write"} /\ st[r].returns.hourly = "true") =>
            LET m == hourly[Len(hourly)].m
                c == CalculateMetrics(st[r].all_ad_items)
            IN  m.CPC = c.CPC /\ m.CTR = c.CTR

\* C24: the hourly row of a bucket carries the bucket's hour-aligned
\* timestamp T, and once it is the last row of Hourly Data,
\* get_last_hourly_timestamp returns exactly T, so that a run at any minute
\* of the hour after T plans the current bucket only.
C24_LabelRoundTrip ==
    \A r \in Runners :
        (st[r].pc \in {"daily_read", "daily_write"} /\ st[r].returns.hourly = "true") =>
            LET T == TargetHour(st[r])
            IN  /\ T % MinutesPerHour = 0
                /\ hourly[Len(hourly)].Timestamp = StrfTimestamp(T)
                /\ GetLastHourlyTimestamp(hourly) = Some(T)
                /\ \A minute \in 0..(MinutesPerHour - 1) :
                       GetHoursToProcess(GetLastHourlyTimestamp(hourly),
                                         T + MinutesPerHour + minute, EnvUnset)
                           = <<T + MinutesPerHour>>

C24_Witness ==
    /\ st[1].pc = "daily_read" /\ st[1].returns.hourly = "true"
    /\ TargetHour(st[1]) = HourAlign(now) - MinutesPerHour
    /\ Len(st[1].before[1]) > 1
    /\ GetLastHourlyTimestamp(st[1].before[1]) = None
    /\ GetLastHourlyTimestamp(hourly) = Some(TargetHour(st[1]))

\* C25: whenever Hourly Data holds at least one bucket row, the gap
\* detection of an automatic run starts from the timestamp of the most
\* recently recorded bucket, also when an error row lies below it.
C25_LastRecordedBucket ==
    \A r \in Runners :
        (st[r].pc = "loop" /\ env = EnvUnset /\ DataRows(hourly) # {}) =>
            LET last == CHOOSE i \in DataRows(hourly) : \A j \in DataRows(hourly) : j <= i
                recorded == StrpTimestamp(hourly[last].Timestamp)
            IN  st[r].hours_to_process
                    = AutoHours(ENABLE_AUTO_CATCHUP, Some(recorded), HourAlign(now))

\* C26: _paginate terminates within bounds: while it runs it has failed
\* fewer than MAX_RETRIES times and asks for a page of the chain; at any
\* moment at most MAX_RETRIES of its requests have failed, it has slept at
\* most MAX_RETRIES - 1 times, and it has issued at most p + MAX_RETRIES
\* requests, p being the number of pages it has asked for (at most the
\* length of the chain).
C26_PaginateBounded ==
    \A r \in Runners :
        LET l == st[r]
            q == l.requests
            failed == SelectSeq(q, LAMBDA x : x.outcome # "ok")
        IN  /\ l.pc = "request" => (l.attempt < MAX_RETRIES /\ l.url <= FetchPages)
            /\ Len(failed) <= MAX_RETRIES
            /\ Len(failed) = l.attempt
            /\ l.sleeps <= MAX_RETRIES - 1
            /\ q # <<>> => Len(q) <= q[Len(q)].url + MAX_RETRIES

C26_Witness ==
    /\ GaveUp(st[1])
    /\ Len(OkRequests(st[1])) >= 2
    /\ st[1].sleeps = MAX_RETRIES - 1
    /\ world.faults > 0

=============================================================================
